---- MODULE Spec2Model ----
(***************************************************************************)
(* Model of the video-orchestrator bot: the inline selection wizard        *)
(* (inline_selection_handler.py), the daily_uploads writes it commits      *)
(* (channel_manager.py) and the reminder policy (schedule_manager.py,      *)
(* orchestrator_bot.py).                                                   *)
(*                                                                         *)
(* Tables of the remote store are sets of rows.  A callback token is the   *)
(* tuple data.split(":") yields: <<"date","d1">>, <<"video","3">>,         *)
(* <<"cancel">>.  Python's None is the string "None" for names and dates   *)
(* and NoVideo for a slot number.                                          *)
(***************************************************************************)
EXTENDS Integers, Sequences, FiniteSets, TLC

VARIABLES
    selections,   \* context.user_data['selections']: user id -> selection state
    channels,     \* table channels: rows [channel_name, is_active]
    uploads,      \* table daily_uploads: rows keyed (channel_id, upload_date, video_number)
    schedules,    \* table upload_schedules: rows [upload_date, last_reminder_sent_at, reminder_type]
    reminder_logs,\* table reminder_logs: sequence of inserted rows
    now,          \* datetime.utcnow(), in minutes
    reply,        \* the last text a handler passed to reply_text / edit_message_text
    trace,        \* history: shape of the callback sequence since start_selection
    sessCommits,  \* history: _process_selection calls since start_selection
    nCommits,     \* history: _process_selection calls in all
    nSessions,    \* history: start_selection calls in all
    lastCommit,   \* history: the _process_selection call of the last callback, if any
    chosen,       \* history: what the user chose last, by the wizard's protocol
    sends,        \* history: the last run of a reminder job
    bulk_selections, \* context.user_data['bulk_selections']: user id -> bulk state
    bulkRun,      \* history: the last _process_bulk run and the message shown after it
    nBulk,        \* history: _process_bulk runs in all
    global_counter,   \* table global_counter: the counter of the row id = 1
    channel_counters, \* table channel_counters: channel_name -> counter
    callers,      \* the workers inside increment_counter / increment_channel_counter
    returned,     \* history: the values the increment calls returned
    nCalls,       \* history: increment calls started in all
    pending,      \* a _process_selection call between its remote calls
    replaced      \* history: the payloads of the states that start_selection overwrote

vars == <<selections, channels, uploads, schedules, reminder_logs, now, reply,
          trace, sessCommits, nCommits, nSessions, lastCommit, chosen, sends,
          bulk_selections, bulkRun, nBulk,
          global_counter, channel_counters, callers, returned, nCalls, pending,
          replaced>>

commitVars == <<pending>>

restartVars == <<replaced>>

counterVars == <<global_counter, channel_counters, callers, returned, nCalls>>

bulkVars == <<bulk_selections, bulkRun, nBulk>>

wizardVars == <<selections, reply, trace, sessCommits, nCommits,
                nSessions, lastCommit, chosen, bulk_selections, bulkRun, nBulk>>

reminderVars == <<schedules, reminder_logs, now, sends>>

----------------------------------------------------------------------------
\* Bounds of the model

MaxSessions == 2      \* start_selection calls explored
MaxCommits == 2       \* _process_selection calls explored
SlotsPerDay == 2      \* slots per channel the date skeleton creates
NumChats == 2         \* len(active_chat_ids)
MaxLogs == 2          \* reminder_logs rows explored
TickMinutes == 10     \* granularity of the clock
MaxNow == 40          \* minutes explored
MaxItems == 5         \* items of one bulk submission
MaxBulk == 1          \* _process_bulk runs explored
MaxCalls == 3         \* increment calls explored
MaxFlights == 1       \* step-by-step _process_selection calls explored

----------------------------------------------------------------------------
\* Values

None == "None"
NoVideo == 0
Null == -1            \* a NULL last_reminder_sent_at

Users == {"u1"}
Dates == {"d1", "d2"}
ChannelNames == {"BI", "GYH"}
VideoNumbers == 1 .. 4
ContentTypes == {"script", "thumbnail"}
VideoStatuses == {"pending", "completed"}

\* int(data.split(":")[1]) on the tokens the video keyboard offers
IntOf(s) == CASE s = "1" -> 1 [] s = "2" -> 2 [] s = "3" -> 3 [] s = "4" -> 4

\* callback_data of the buttons the three keyboards build
DateButtons == {<<"date", d>> : d \in Dates} \cup {<<"cancel">>}
ChannelButtons ==
    {<<"channel", r.channel_name>> : r \in {c \in channels : c.is_active}}
        \cup {<<"back_to_date">>, <<"cancel">>}
VideoButtons ==
    {<<"video", s>> : s \in {"1", "2", "3", "4"}} \cup {<<"back_to_channel">>, <<"cancel">>}

\* Every keyboard sent earlier stays on screen, so any token can arrive in any step.
CallbackData ==
    DateButtons \cup {<<"channel", c>> : c \in ChannelNames}
        \cup {<<"back_to_date">>, <<"cancel">>} \cup VideoButtons

----------------------------------------------------------------------------
\* Table daily_uploads (channel_manager.py, DailyUploadManager)

Key(r) == <<r.channel_id, r.upload_date, r.video_number>>

RowsAt(ups, ch, d, n) == {r \in ups : Key(r) = <<ch, d, n>>}

PendingRow(ch, d, n) ==
    [channel_id |-> ch, upload_date |-> d, video_number |-> n,
     script_status |-> "pending", thumbnail_status |-> "pending",
     video_status |-> "pending", audio_status |-> "pending"]

\* upsert(data, on_conflict='channel_id,upload_date,video_number'): the row with the
\* key is replaced by the payload's columns (merge-duplicates), else inserted.
Upsert(ups, row) == (ups \ RowsAt(ups, row.channel_id, row.upload_date, row.video_number)) \cup {row}

\* The statement is refused when a key column is NULL.
CreateUploadEntryRaises(ch, d, n) == ch = None \/ d = None \/ n = NoVideo

CreateUploadEntry(ups, ch, d, n) == Upsert(ups, PendingRow(ch, d, n))

\* update(...).eq(channel_id).eq(upload_date).eq(video_number): no row -> raise
UpdateRaises(ups, ch, d, n) == RowsAt(ups, ch, d, n) = {}

UpdateScript(ups, ch, d, n) ==
    {IF Key(r) = <<ch, d, n>> THEN [r EXCEPT !.script_status = "received"] ELSE r : r \in ups}

UpdateThumbnail(ups, ch, d, n) ==
    {IF Key(r) = <<ch, d, n>> THEN [r EXCEPT !.thumbnail_status = "received"] ELSE r : r \in ups}

----------------------------------------------------------------------------
\* Table channels (channel_manager.py, ChannelManager)

\* get_channel: select by name, active or not; None when no row (or the call fails)
\* update_video_status: only the video status changes; no row raises
UpdateVideoStatus(ups, ch, d, n, status) ==
    {IF Key(r) = <<ch, d, n>> THEN [r EXCEPT !.video_status = status] ELSE r : r \in ups}

GetChannel(chans, name) ==
    IF \E c \in chans : c.channel_name = name THEN name ELSE None

----------------------------------------------------------------------------
\* _process_selection: the commit.  fault names the remote call that fails:
\* "none", "get" (get_channel), "create" (create_upload_entry), "update".

Faults == {"none", "get", "create", "update"}

ProcessSelection(state, ups, chans, fault) ==
    LET ch == IF fault = "get" THEN None ELSE GetChannel(chans, state.selected_channel)
        d  == state.selected_date
        n  == state.selected_video
    IN  IF ch = None
        THEN [ok |-> FALSE, uploads |-> ups]
        ELSE IF fault = "create" \/ CreateUploadEntryRaises(ch, d, n)
        THEN [ok |-> FALSE, uploads |-> ups]
        ELSE LET created == CreateUploadEntry(ups, ch, d, n)
             IN  IF fault = "update" \/ UpdateRaises(created, ch, d, n)
                 THEN [ok |-> FALSE, uploads |-> created]
                 ELSE IF state.content_type = "script"
                 THEN [ok |-> TRUE, uploads |-> UpdateScript(created, ch, d, n)]
                 ELSE IF state.content_type = "thumbnail"
                 THEN [ok |-> TRUE, uploads |-> UpdateThumbnail(created, ch, d, n)]
                 ELSE [ok |-> FALSE, uploads |-> created]

----------------------------------------------------------------------------
\* The wizard (inline_selection_handler.py)

NewState(content_type, content_data) ==
    [content_type |-> content_type, content_data |-> content_data, step |-> "date",
     selected_date |-> None, selected_channel |-> None, selected_video |-> NoVideo]

NoReply == None
NoCommit ==
    [selected_date |-> None, selected_channel |-> None, selected_video |-> NoVideo,
     content_type |-> None, content_data |-> 0, ok |-> FALSE]
NoChoice == [date |-> None, channel |-> None, video |-> NoVideo, replaced |-> None]

Put(sel, u, state) == [v \in DOMAIN sel \cup {u} |-> IF v = u THEN state ELSE sel[v]]
Del(sel, u) == [v \in DOMAIN sel \ {u} |-> sel[v]]

\* The if-chain of handle_callback: which branch a token takes.
Dispatch(data) ==
    IF data = <<"cancel">> THEN "cancel"
    ELSE IF data = <<"back_to_date">> THEN "back_to_date"
    ELSE IF data = <<"back_to_channel">> THEN "back_to_channel"
    ELSE IF data[1] = "date" /\ Len(data) > 1 THEN "date"
    ELSE IF data[1] = "channel" /\ Len(data) > 1 THEN "channel"
    ELSE IF data[1] = "video" /\ Len(data) > 1 THEN "video"
    ELSE "unknown"

\* variant: the back button only rewinds the step
BackToDate_KeepChannel(state) == [state EXCEPT !.step = "date"]

BackToDate(state) == [state EXCEPT !.step = "date", !.selected_channel = None]
BackToChannel(state) == [state EXCEPT !.step = "channel", !.selected_video = NoVideo]
PickDate(state, d) == [state EXCEPT !.selected_date = d, !.step = "channel"]
\* variant: a channel already chosen is kept (setdefault instead of assignment)
PickChannel_KeepFirst(state, c) ==
    [state EXCEPT !.selected_channel = IF @ = None THEN c ELSE @, !.step = "video"]

PickChannel(state, c) == [state EXCEPT !.selected_channel = c, !.step = "video"]
PickVideo(state, n) == [state EXCEPT !.selected_video = n]

\* variant: a missing state is recreated silently
OnMissing_Recreate(sel, u) == Put(sel, u, NewState("script", 0))

\* No state for the user: the handler answers and returns, the dict is left as it is.
OnMissing(sel, u) == sel

\* variant: a failed commit is tried a second time
CompleteSelection_Retry(state, ups, chans, fault) ==
    LET res == ProcessSelection(state, ups, chans, fault)
    IN  [ok |-> res.ok, uploads |-> res.uploads, calls |-> IF res.ok THEN 1 ELSE 2]

\* success = await self._process_selection(state, context): one call, its result kept
CompleteSelection(state, ups, chans, fault) ==
    LET res == ProcessSelection(state, ups, chans, fault)
    IN  [ok |-> res.ok, uploads |-> res.uploads, calls |-> 1]

\* What the branch leaves in context.user_data['selections'] when
\* edit_message_text succeeds (shown) or raises.
AfterCancel(sel, u, shown) == IF shown THEN Del(sel, u) ELSE sel
AfterVideo(sel, u, state, shown) == IF shown THEN Del(sel, u) ELSE Put(sel, u, state)

\* history: the protocol's view of what is chosen (back-to-date clears the channel)
\* video is the slot the last callback picked, replaced the channel a later pick replaced
Chose(c, branch, data) ==
    CASE branch = "date" -> [c EXCEPT !.date = data[2], !.video = NoVideo]
      [] branch = "channel" ->
            [c EXCEPT !.channel = data[2], !.video = NoVideo,
                      !.replaced = IF c.channel \notin {None, data[2]} THEN c.channel
                                   ELSE IF @ = data[2] THEN None ELSE @]
      [] branch = "back_to_date" -> [c EXCEPT !.channel = None, !.video = NoVideo]
      [] branch = "video" -> [c EXCEPT !.video = IntOf(data[2])]
      [] OTHER -> [c EXCEPT !.video = NoVideo]

NavBranches == {"date", "channel", "back_to_date", "back_to_channel"}

TraceAfter(t, branch) ==
    IF t \in {"start", "nav"}
    THEN CASE branch \in NavBranches -> "nav"
           [] branch = "cancel" -> "ended_cancel"
           [] branch = "video" -> "ended_video"
           [] OTHER -> "other"
    ELSE "other"

StartSelection(u, content_type, replyOk) ==
    /\ nSessions < MaxSessions
    /\ nCommits < MaxCommits
    /\ nSessions' = nSessions + 1
    /\ selections' = Put(selections, u, NewState(content_type, nSessions + 1))
    /\ reply' = "select_date_for_content"
    /\ trace' = "start"
    /\ sessCommits' = 0
    /\ chosen' = NoChoice
    /\ lastCommit' = NoCommit
    /\ UNCHANGED <<channels, uploads, nCommits>>
    /\ UNCHANGED reminderVars
    /\ UNCHANGED counterVars
    /\ UNCHANGED commitVars
    /\ UNCHANGED bulkVars

HandleCallback(u, data, answerOk, editOk, fault) ==
    /\ nCommits < MaxCommits
    /\ UNCHANGED <<channels, nSessions>>
    /\ UNCHANGED reminderVars
    /\ UNCHANGED counterVars
    /\ UNCHANGED commitVars
    /\ UNCHANGED restartVars
    /\ UNCHANGED bulkVars
    /\ IF ~answerOk
       THEN \* query.answer() raises: nothing is read, nothing is shown
            UNCHANGED <<selections, uploads, reply, trace, sessCommits,
                        nCommits, lastCommit, chosen>>
       ELSE IF u \notin DOMAIN selections
       THEN /\ reply' = "expired"
            /\ lastCommit' = NoCommit
            /\ selections' = OnMissing(selections, u)
            /\ UNCHANGED <<uploads, trace, sessCommits, nCommits, chosen>>
       ELSE LET state == selections[u]
                branch == Dispatch(data)
            IN  /\ trace' = TraceAfter(trace, branch)
                /\ chosen' = Chose(chosen, branch, data)
                /\ CASE branch = "cancel" ->
                          /\ reply' = "cancelled"
                          /\ selections' = AfterCancel(selections, u, editOk)
                          /\ lastCommit' = NoCommit
                          /\ UNCHANGED <<uploads, sessCommits, nCommits>>
                     [] branch = "back_to_date" ->
                          /\ selections' = Put(selections, u, BackToDate(state))
                          /\ reply' = "select_date"
                          /\ lastCommit' = NoCommit
                          /\ UNCHANGED <<uploads, sessCommits, nCommits>>
                     [] branch = "back_to_channel" ->
                          /\ selections' = Put(selections, u, BackToChannel(state))
                          /\ reply' = "select_channel_again"
                          /\ lastCommit' = NoCommit
                          /\ UNCHANGED <<uploads, sessCommits, nCommits>>
                     [] branch = "date" ->
                          /\ selections' = Put(selections, u, PickDate(state, data[2]))
                          /\ reply' = "select_channel"
                          /\ lastCommit' = NoCommit
                          /\ UNCHANGED <<uploads, sessCommits, nCommits>>
                     [] branch = "channel" ->
                          /\ selections' = Put(selections, u, PickChannel(state, data[2]))
                          /\ reply' = "select_video"
                          /\ lastCommit' = NoCommit
                          /\ UNCHANGED <<uploads, sessCommits, nCommits>>
                     [] branch = "video" ->
                          LET picked == PickVideo(state, IntOf(data[2]))
                              res == CompleteSelection(picked, uploads, channels, fault)
                          IN  /\ uploads' = res.uploads
                              /\ sessCommits' = sessCommits + res.calls
                              /\ nCommits' = nCommits + res.calls
                              /\ lastCommit' =
                                    [selected_date |-> picked.selected_date,
                                     selected_channel |-> picked.selected_channel,
                                     selected_video |-> picked.selected_video,
                                     content_type |-> picked.content_type,
                                     content_data |-> picked.content_data,
                                     ok |-> res.ok]
                              /\ reply' = IF res.ok THEN "saved" ELSE "error"
                              /\ selections' = AfterVideo(selections, u, picked, editOk)
                     [] OTHER ->
                          /\ reply' = NoReply
                          /\ lastCommit' = NoCommit
                          /\ UNCHANGED <<selections, uploads, sessCommits, nCommits>>

----------------------------------------------------------------------------
\* Inbound messages (inline_selection_handler.py, detect_content_type;
\* orchestrator_bot.py, handle_message)

ScriptMinLen == 50    \* len(message.text) > 50

\* message.text by its length (0: no text), message.photo, and message.document by
\* its mime_type split at the first "/": <<"image", "png">>; NoMime is a document
\* without mime_type, NoDocument no document
NoDocument == <<"-">>
NoMime == <<"?">>
Messages ==
    [text_len : {0, ScriptMinLen - 1, ScriptMinLen, ScriptMinLen + 1},
     photo : BOOLEAN,
     document : {NoDocument, NoMime, <<"image", "png">>, <<"application", "pdf">>,
                 <<"imagery", "x">>}]

\* mime_type and mime_type.startswith('image/')
IsImage(document) == Len(document) = 2 /\ document[1] = "image"

\* variant: a text of exactly the minimum length is a script
DetectContentType_AtLeast(message) ==
    IF message.text_len >= ScriptMinLen THEN "script"
    ELSE IF message.photo THEN "thumbnail"
    ELSE IF message.document # NoDocument /\ IsImage(message.document) THEN "thumbnail"
    ELSE None

DetectContentType(message) ==
    IF message.text_len > 0 /\ message.text_len > ScriptMinLen THEN "script"
    ELSE IF message.photo THEN "thumbnail"
    ELSE IF message.document # NoDocument /\ IsImage(message.document) THEN "thumbnail"
    ELSE None

\* context.user_data['selections'] after handle_message; k numbers the payload
AfterMessage(sel, u, message, k) ==
    LET content_type == DetectContentType(message)
    IN  IF content_type = None THEN sel
        ELSE Put(sel, u, NewState(content_type, k))

\* handle_message: nothing is done for a message that is neither
HandleMessage(u, message, replyOk) ==
    LET content_type == DetectContentType(message)
    IN  /\ IF content_type = None
           THEN UNCHANGED vars
           ELSE StartSelection(u, content_type, replyOk) /\ UNCHANGED restartVars
        /\ selections' = AfterMessage(selections, u, message, nSessions + 1)

----------------------------------------------------------------------------
\* Bulk assignment (inline_selection_handler.py, handle_bulk_selection,
\* handle_bulk_callback, _process_bulk)

SlotCap == 4          \* items[:4]

Min(a, b) == IF a < b THEN a ELSE b

RECURSIVE SumOver(_, _)
\* the sum of f[x] over the x of S
SumOver(f, S) ==
    IF S = {} THEN 0 ELSE LET x == CHOOSE y \in S : TRUE IN f[x] + SumOver(f, S \ {x})

\* the submitted items, by their position in the submission
Items(k) == [i \in 1 .. k |-> i]

NewBulkState(content_type, items) ==
    [content_type |-> content_type, items |-> items, step |-> "date",
     selected_date |-> None, selected_channel |-> None]

\* variant: no cap
FirstItems_All(items) == items

\* items[:4]
FirstItems(items) == SubSeq(items, 1, Min(Len(items), SlotCap))

\* variant: the first failure ends the loop
AfterFailure_Abort(i, n) == n + 1

\* except Exception: ... continue
AfterFailure(i, n) == i + 1

\* the remote calls of one item: fault "create" makes create_upload_entry raise,
\* "update" makes update_script / update_thumbnail raise
BulkItem(ups, ch, d, n, content_type, fault) ==
    IF fault = "create" \/ CreateUploadEntryRaises(ch, d, n)
    THEN [ok |-> FALSE, uploads |-> ups]
    ELSE LET created == CreateUploadEntry(ups, ch, d, n)
         IN  IF fault = "update"
             THEN [ok |-> FALSE, uploads |-> created]
             ELSE IF content_type = "script"
             THEN [ok |-> TRUE, uploads |-> UpdateScript(created, ch, d, n)]
             ELSE IF content_type = "thumbnail"
             THEN [ok |-> TRUE, uploads |-> UpdateThumbnail(created, ch, d, n)]
             ELSE [ok |-> TRUE, uploads |-> created]

RECURSIVE BulkLoop(_, _, _, _, _, _)
\* for i, item in enumerate(items[:4]): video_number = i + 1; here i counts from 1
BulkLoop(i, first, state, ch, faults, acc) ==
    IF i > Len(first) THEN acc
    ELSE LET res == BulkItem(acc.uploads, ch, state.selected_date, i,
                             state.content_type, faults[i])
             attempt == [item |-> first[i], slot |-> i, ok |-> res.ok]
             acc2 == [count |-> IF res.ok THEN acc.count + 1 ELSE acc.count,
                      uploads |-> res.uploads,
                      attempts |-> Append(acc.attempts, attempt)]
         IN  BulkLoop(IF res.ok THEN i + 1 ELSE AfterFailure(i, Len(first)),
                      first, state, ch, faults, acc2)

\* _process_bulk: the success count, with the writes and the attempts made
ProcessBulk(state, ups, chans, faults) ==
    LET ch == GetChannel(chans, state.selected_channel)
    IN  IF ch = None
        THEN [count |-> 0, uploads |-> ups, attempts |-> << >>, found |-> FALSE]
        ELSE LET acc == BulkLoop(1, FirstItems(state.items), state, ch, faults,
                                 [count |-> 0, uploads |-> ups, attempts |-> << >>])
             IN  [count |-> acc.count, uploads |-> acc.uploads,
                  attempts |-> acc.attempts, found |-> TRUE]

\* variant: the message counts the attempts
ShownTotal_Attempted(state, attempts) == Len(attempts)

\* len(state['items']) in f"Saved {success_count}/{len(state['items'])} items"
ShownTotal(state, attempts) == Len(state.items)

NoBulkRun ==
    [ran |-> FALSE, submitted |-> 0, found |-> FALSE, date |-> None, attempts |-> << >>,
     success_count |-> 0, shown |-> FALSE, saved |-> 0, of |-> 0]

BulkCallbackData ==
    {<<"date", d>> : d \in Dates} \cup {<<"channel", c>> : c \in ChannelNames \cup {"gone"}}
    \cup {<<"cancel">>}

\* which items' commits fail in a run, and at which remote call
BulkFaults ==
    {[i \in 1 .. MaxItems |-> IF i \in F THEN kind ELSE "none"] :
        F \in SUBSET (1 .. SlotCap), kind \in {"create", "update"}}

HandleBulkSelection(u, content_type, k, replyOk) ==
    /\ nBulk < MaxBulk
    /\ bulk_selections' = Put(bulk_selections, u, NewBulkState(content_type, Items(k)))
    /\ bulkRun' = NoBulkRun
    /\ UNCHANGED <<selections, reply, trace, sessCommits, nCommits, nSessions,
                   lastCommit, chosen, nBulk>>
    /\ UNCHANGED <<channels, uploads>>
    /\ UNCHANGED reminderVars
    /\ UNCHANGED counterVars
    /\ UNCHANGED commitVars
    /\ UNCHANGED restartVars

HandleBulkCallback(u, data, answerOk, editOk, faults) ==
    /\ nBulk < MaxBulk
    /\ UNCHANGED <<selections, reply, trace, sessCommits, nCommits, nSessions,
                   lastCommit, chosen>>
    /\ UNCHANGED channels
    /\ UNCHANGED reminderVars
    /\ UNCHANGED counterVars
    /\ UNCHANGED commitVars
    /\ UNCHANGED restartVars
    /\ IF ~answerOk \/ u \notin DOMAIN bulk_selections
       THEN UNCHANGED <<bulk_selections, bulkRun, uploads, nBulk>>
       ELSE LET state == bulk_selections[u]
            IN  IF data[1] = "date"
                THEN /\ bulk_selections' =
                           Put(bulk_selections, u,
                               [state EXCEPT !.selected_date = data[2], !.step = "channel"])
                     /\ UNCHANGED <<bulkRun, uploads, nBulk>>
                ELSE IF data[1] = "channel"
                THEN LET picked == [state EXCEPT !.selected_channel = data[2]]
                         res == ProcessBulk(picked, uploads, channels, faults)
                         \* datetime.fromisoformat(None) raises before the message
                         shown == picked.selected_date # None /\ editOk
                     IN  /\ uploads' = res.uploads
                         /\ nBulk' = nBulk + 1
                         /\ bulkRun' =
                               [ran |-> TRUE, submitted |-> Len(picked.items),
                                found |-> res.found, date |-> picked.selected_date,
                                attempts |-> res.attempts, success_count |-> res.count,
                                shown |-> shown,
                                saved |-> IF shown THEN res.count ELSE 0,
                                of |-> IF shown THEN ShownTotal(picked, res.attempts) ELSE 0]
                         /\ bulk_selections' =
                               IF shown THEN Del(bulk_selections, u)
                               ELSE Put(bulk_selections, u, picked)
                ELSE UNCHANGED <<bulk_selections, bulkRun, uploads, nBulk>>

----------------------------------------------------------------------------
\* Counters (supabase_client.py, SupabaseClient)

Workers == {"w1", "w2"}

Idle == [pc |-> "idle", call |-> 0, target |-> None, current |-> 0]

\* the timestamp-based value an except clause returns; it can be any number
Stamps == 1 .. MaxCalls

\* rpc increment_global_counter: "PostgreSQL RPC for atomic increment", one
\* statement that adds one and returns the new value
RpcIncrementGlobalCounter(c) == c + 1

\* get_channel_counter: 0 when the channel has no row, or when the select fails
GetChannelCounter(cc, ch, readOk) == IF readOk /\ ch \in DOMAIN cc THEN cc[ch] ELSE 0

\* get_counter: 0 when the select fails
GetCounter(c, readOk) == IF readOk THEN c ELSE 0

Returned(ret, k, target, value, ok) ==
    ret \cup {[call |-> k, target |-> target, value |-> value, ok |-> ok]}

\* increment_counter: rpc is "ok" (the new value comes back), "empty" (no data: the
\* code falls back to get_counter and an update) or "raise" (timestamp-based value)
IncrementCounter(w, rpc, readOk, stamp) ==
    /\ nCalls < MaxCalls
    /\ callers[w].pc = "idle"
    /\ nCalls' = nCalls + 1
    /\ UNCHANGED channel_counters
    /\ CASE rpc = "ok" ->
              /\ global_counter' = RpcIncrementGlobalCounter(global_counter)
              /\ returned' = Returned(returned, nCalls + 1, "global",
                                      RpcIncrementGlobalCounter(global_counter), TRUE)
              /\ UNCHANGED callers
         [] rpc = "empty" ->
              /\ callers' = [callers EXCEPT ![w] =
                                [pc |-> "read", call |-> nCalls + 1, target |-> "global",
                                 current |-> GetCounter(global_counter, readOk)]]
              /\ UNCHANGED <<global_counter, returned>>
         [] OTHER ->
              /\ returned' = Returned(returned, nCalls + 1, "global", stamp, FALSE)
              /\ UNCHANGED <<global_counter, callers>>
    /\ UNCHANGED <<selections, channels, uploads, reply, trace, sessCommits, nCommits,
                   nSessions, lastCommit, chosen>>
    /\ UNCHANGED bulkVars
    /\ UNCHANGED commitVars
    /\ UNCHANGED restartVars
    /\ UNCHANGED <<schedules, reminder_logs, now, sends>>

\* increment_channel_counter, first remote call: current = get_channel_counter(ch)
ChannelCounterRead(w, ch, readOk) ==
    /\ nCalls < MaxCalls
    /\ callers[w].pc = "idle"
    /\ nCalls' = nCalls + 1
    /\ callers' = [callers EXCEPT ![w] =
                      [pc |-> "read", call |-> nCalls + 1, target |-> ch,
                       current |-> GetChannelCounter(channel_counters, ch, readOk)]]
    /\ UNCHANGED <<global_counter, channel_counters, returned>>
    /\ UNCHANGED <<selections, channels, uploads, reply, trace, sessCommits, nCommits,
                   nSessions, lastCommit, chosen>>
    /\ UNCHANGED bulkVars
    /\ UNCHANGED commitVars
    /\ UNCHANGED restartVars
    /\ UNCHANGED <<schedules, reminder_logs, now, sends>>

\* the second remote call of a worker that has read: the update with current + 1
\* (or the insert of counter = 1 for a channel read as new), and the return
CounterWrite(w, writeOk, stamp) ==
    LET c == callers[w]
        new_value == c.current + 1
    IN  /\ c.pc = "read"
        /\ callers' = [callers EXCEPT ![w] = Idle]
        /\ UNCHANGED nCalls
        /\ IF ~writeOk
           THEN /\ returned' = Returned(returned, c.call, c.target, stamp, FALSE)
                /\ UNCHANGED <<global_counter, channel_counters>>
           ELSE IF c.target = "global"
           THEN /\ global_counter' = new_value
                /\ returned' = Returned(returned, c.call, c.target, new_value, TRUE)
                /\ UNCHANGED channel_counters
           ELSE IF c.current > 0
           THEN \* update(...).eq('channel_name', channel_name)
                /\ channel_counters' = [channel_counters EXCEPT ![c.target] = new_value]
                /\ returned' = Returned(returned, c.call, c.target, new_value, TRUE)
                /\ UNCHANGED global_counter
           ELSE IF c.target \in DOMAIN channel_counters
           THEN \* insert for a channel that has a row by now: the key is taken
                /\ returned' = Returned(returned, c.call, c.target, stamp, FALSE)
                /\ UNCHANGED <<global_counter, channel_counters>>
           ELSE /\ channel_counters' = Put(channel_counters, c.target, 1)
                /\ returned' = Returned(returned, c.call, c.target, 1, TRUE)
                /\ UNCHANGED global_counter
        /\ UNCHANGED <<selections, channels, uploads, reply, trace, sessCommits, nCommits,
                       nSessions, lastCommit, chosen>>
        /\ UNCHANGED bulkVars
        /\ UNCHANGED commitVars
        /\ UNCHANGED restartVars
        /\ UNCHANGED <<schedules, reminder_logs, now, sends>>

----------------------------------------------------------------------------
\* Channels and manual completion

\* delete_channel: soft delete, the rows of the channel stay
DeleteChannel(chans, name) ==
    {IF c.channel_name = name THEN [c EXCEPT !.is_active = FALSE] ELSE c : c \in chans}

\* variant: the slot is written with an upsert, so a missing slot is created
MarkComplete_Upsert(ups, chans, name, d, n) ==
    LET ch == GetChannel(chans, name)
    IN  IF ch = None
        THEN [ok |-> FALSE, uploads |-> ups]
        ELSE [ok |-> TRUE,
              uploads |->
                 Upsert(ups, [PendingRow(ch, d, n) EXCEPT
                                 !.script_status = "processed",
                                 !.thumbnail_status = "received",
                                 !.video_status = "completed",
                                 !.audio_status = "completed"])]

\* mark_complete: the channel is looked up by name, then the slot's row is updated
MarkComplete(ups, chans, name, d, n) ==
    LET ch == GetChannel(chans, name)
    IN  IF ch = None
        THEN [ok |-> FALSE, uploads |-> ups]
        ELSE [ok |-> RowsAt(ups, ch, d, n) # {},
              uploads |->
                 {IF Key(r) = <<ch, d, n>>
                  THEN [r EXCEPT !.script_status = "processed",
                                 !.thumbnail_status = "received",
                                 !.video_status = "completed",
                                 !.audio_status = "completed"]
                  ELSE r : r \in ups}]

----------------------------------------------------------------------------
\* _process_selection by its remote calls, next to a manual mark_complete on the
\* same slot.  pending.before is the table when the call began, pending.marked
\* tells that mark_complete ran on the slot since.

NoPending ==
    [pc |-> "none", state |-> NewState(None, 0), channel_id |-> None, before |-> {},
     marked |-> FALSE, flights |-> 0]

\* channel = await self.channel_mgr.get_channel(selected_channel)
CommitGetChannel(content_type, name, d, n) ==
    LET state == [NewState(content_type, 0) EXCEPT !.selected_date = d,
                      !.selected_channel = name, !.selected_video = n, !.step = "video"]
        ch == GetChannel(channels, name)
    IN  /\ pending.pc \in {"none", "done", "failed"}
        /\ pending.flights < MaxFlights
        /\ pending' = [pc |-> IF ch = None THEN "failed" ELSE "got",
                       state |-> state, channel_id |-> ch, before |-> uploads,
                       marked |-> FALSE, flights |-> pending.flights + 1]
        /\ UNCHANGED <<selections, channels, uploads, reply, trace, sessCommits, nCommits,
                       nSessions, lastCommit, chosen>>
        /\ UNCHANGED bulkVars
        /\ UNCHANGED counterVars
        /\ UNCHANGED restartVars
        /\ UNCHANGED reminderVars

\* await self.upload_mgr.create_upload_entry(channel_id, selected_date, selected_video)
CommitCreate(createOk) ==
    /\ pending.pc = "got"
    /\ IF createOk
       THEN /\ uploads' = CreateUploadEntry(uploads, pending.channel_id,
                                            pending.state.selected_date,
                                            pending.state.selected_video)
            /\ pending' = [pending EXCEPT !.pc = "created"]
       ELSE /\ pending' = [pending EXCEPT !.pc = "failed"]
            /\ UNCHANGED uploads
    /\ UNCHANGED <<selections, channels, reply, trace, sessCommits, nCommits,
                   nSessions, lastCommit, chosen>>
    /\ UNCHANGED bulkVars
    /\ UNCHANGED counterVars
    /\ UNCHANGED restartVars
    /\ UNCHANGED reminderVars

\* await self.upload_mgr.update_script(...) / update_thumbnail(...)
CommitUpdate(updateOk) ==
    LET ch == pending.channel_id
        d == pending.state.selected_date
        n == pending.state.selected_video
    IN  /\ pending.pc = "created"
        /\ IF ~updateOk \/ UpdateRaises(uploads, ch, d, n)
           THEN /\ pending' = [pending EXCEPT !.pc = "failed"]
                /\ UNCHANGED uploads
           ELSE /\ pending' = [pending EXCEPT !.pc = "done"]
                /\ uploads' = IF pending.state.content_type = "script"
                              THEN UpdateScript(uploads, ch, d, n)
                              ELSE UpdateThumbnail(uploads, ch, d, n)
        /\ UNCHANGED <<selections, channels, reply, trace, sessCommits, nCommits,
                       nSessions, lastCommit, chosen>>
        /\ UNCHANGED bulkVars
        /\ UNCHANGED counterVars
        /\ UNCHANGED restartVars
        /\ UNCHANGED reminderVars

\* cmd_mark_complete on the slot of the call in flight, once
MarkDuringCommit ==
    /\ pending.pc \in {"got", "created"}
    /\ ~pending.marked
    /\ uploads' = MarkComplete(uploads, channels, pending.state.selected_channel,
                               pending.state.selected_date,
                               pending.state.selected_video).uploads
    /\ pending' = [pending EXCEPT !.marked = TRUE]
    /\ UNCHANGED <<selections, channels, reply, trace, sessCommits, nCommits,
                   nSessions, lastCommit, chosen>>
    /\ UNCHANGED bulkVars
    /\ UNCHANGED counterVars
    /\ UNCHANGED restartVars
    /\ UNCHANGED reminderVars

----------------------------------------------------------------------------
\* Day status (schedule_manager.py, ScheduleManager)

Today == "d1"         \* date.today().isoformat()
Tomorrow == "d2"      \* (date.today() + timedelta(days=1)).isoformat()

RowsOn(ups, d) == {r \in ups : r.upload_date = d}
ScheduleRows(sch, d) == {s \in sch : s.upload_date = d}

\* zoned: the store returns last_reminder_sent_at with a zone designator ("Z" or
\* "+00:00"), as a timestamp-with-time-zone column does, and not as the bare string
\* datetime.utcnow().isoformat() that was written
NewSchedule(d) ==
    [upload_date |-> d, last_reminder_sent_at |-> Null, zoned |-> FALSE,
     reminder_type |-> None]

\* now - last_dt, with now = datetime.utcnow() (naive) and last_dt =
\* datetime.fromisoformat(last_sent.replace('Z', '+00:00')): subtracting an aware
\* datetime from a naive one raises TypeError
SinceRaises(s) == s.zoned

\* rpc create_daily_uploads_skeleton: "Creates upload_schedule and daily_uploads
\* entries" for the date: a schedule row, and for every active channel the pending
\* rows of its slots that do not exist yet.
SkeletonUploads(ups, chans, d) ==
    ups \cup {PendingRow(c[1], d, c[2]) :
                 c \in {x \in {y.channel_name : y \in {z \in chans : z.is_active}}
                                \X (1 .. SlotsPerDay) : RowsAt(ups, x[1], d, x[2]) = {}}}

SkeletonSchedules(sch, d) == IF ScheduleRows(sch, d) = {} THEN sch \cup {NewSchedule(d)} ELSE sch

\* column upload_schedules.all_complete, kept by the store: the date's aggregate is
\* fully complete
AllCompleteColumn(ups, d) ==
    RowsOn(ups, d) # {} /\ \A r \in RowsOn(ups, d) : r.video_status = "completed"

\* variant: READY when completed = total, without looking at total
StatusText_ZeroReady(completed, total) ==
    IF completed = total THEN "READY"
    ELSE IF total > 0 /\ 100 * completed >= 80 * total THEN "ALMOST READY"
    ELSE IF total > 0 /\ 100 * completed >= 50 * total THEN "IN PROGRESS"
    ELSE IF total > 0 /\ completed > 0 THEN "STARTED"
    ELSE "NOT STARTED"

\* variant: exactly 80% is not yet ALMOST READY
StatusText_Above80(completed, total) ==
    IF total > 0 /\ completed = total THEN "READY"
    ELSE IF total > 0 /\ 100 * completed > 80 * total THEN "ALMOST READY"
    ELSE IF total > 0 /\ 100 * completed >= 50 * total THEN "IN PROGRESS"
    ELSE IF total > 0 /\ completed > 0 THEN "STARTED"
    ELSE "NOT STARTED"

\* the if-chain on completion_pct = videos_completed / total * 100 (0 when total is
\* 0); the float comparisons agree with the exact ones for every total below 3000
StatusText(completed, total) ==
    IF total > 0 /\ completed = total THEN "READY"
    ELSE IF total > 0 /\ 100 * completed >= 80 * total THEN "ALMOST READY"
    ELSE IF total > 0 /\ 100 * completed >= 50 * total THEN "IN PROGRESS"
    ELSE IF total > 0 /\ completed > 0 THEN "STARTED"
    ELSE "NOT STARTED"

\* round(completion_pct, 1), in tenths of a percent: round half to even, as Python
\* rounds the float (exact for every total below 80)
CompletionPercentage(completed, total) ==
    IF total > 0
    THEN LET q == (1000 * completed) \div total
             r == (1000 * completed) % total
         IN  IF 2 * r > total THEN q + 1
             ELSE IF 2 * r = total THEN q + (q % 2)
             ELSE q
    ELSE 0

\* variant: only the rows that already have a script count
TotalVideos_WithScript(rows) == Cardinality({r \in rows : r.script_status # "pending"})

\* total = len(uploads)
TotalVideos(rows) == Cardinality(rows)

\* videos_completed = sum(1 for u in uploads if u['video_status'] == 'completed')
VideosCompleted(rows) == Cardinality({r \in rows : r.video_status = "completed"})

\* f"V{video_num} script", f"V{video_num} thumbnail"
Label(n, field) == <<"V", n, field>>

\* variant: the thumbnails are not tracked
MissingItems_ScriptOnly(rows) ==
    {Label(r.video_number, "script") : r \in {x \in rows : x.script_status = "pending"}}

\* variant: a script is missing until it is processed
MissingItems_Unprocessed(rows) ==
    {Label(r.video_number, "script") : r \in {x \in rows : x.script_status # "processed"}}
    \cup {Label(r.video_number, "thumbnail") :
             r \in {x \in rows : x.thumbnail_status = "pending"}}

\* channels_status[ch_name]['missing'], of one channel's rows
MissingItems(rows) ==
    {Label(r.video_number, "script") : r \in {x \in rows : x.script_status = "pending"}}
    \cup {Label(r.video_number, "thumbnail") :
             r \in {x \in rows : x.thumbnail_status = "pending"}}

\* channels_status: one entry per channel that has a row of the date
ChannelsStatus(rows) ==
    [ch \in {r.channel_id : r \in rows} |->
        LET mine == {r \in rows : r.channel_id = ch}
        IN  [total |-> Cardinality(mine),
             completed |-> Cardinality({r \in mine : r.video_status = "completed"}),
             scripts |-> Cardinality({r \in mine : r.script_status \in {"received", "processed"}}),
             thumbnails |-> Cardinality({r \in mine : r.thumbnail_status = "received"}),
             missing |-> MissingItems(mine)]]

\* get_day_status: initializes the date when it has no schedule row, then aggregates
GetDayStatus(ups, sch, chans, d) ==
    LET missing == ScheduleRows(sch, d) = {}
        ups2 == IF missing THEN SkeletonUploads(ups, chans, d) ELSE ups
        sch2 == IF missing THEN SkeletonSchedules(sch, d) ELSE sch
        rows == RowsOn(ups2, d)
        total == TotalVideos(rows)
        videos_completed == VideosCompleted(rows)
    IN  [uploads |-> ups2, schedules |-> sch2,
         date |-> d,
         channels |-> ChannelsStatus(rows),
         total_videos |-> total,
         videos_completed |-> videos_completed,
         completion_percentage |-> CompletionPercentage(videos_completed, total),
         status_text |-> StatusText(videos_completed, total),
         all_complete |-> ScheduleRows(sch2, d) # {} /\ AllCompleteColumn(ups2, d)]

\* the dates from today on, date.today() + timedelta(days=i)
Calendar == <<"d1", "d2", "d3", "d4", "d5", "d6", "d7", "d8">>

WeekDays == 7

\* get_date_range(days_ahead)
DateRange(days_ahead) == SubSeq(Calendar, 1, days_ahead)

\* variant: the mean of the days' percentages
OverallPercentage_Mean(days, total_completed, total_videos) ==
    IF Len(days) > 0
    THEN SumOver([i \in DOMAIN days |-> days[i].completion_percentage], DOMAIN days)
            \div Len(days)
    ELSE 0

\* round(overall_pct, 1) with overall_pct = total_completed / total_videos * 100
OverallPercentage(days, total_completed, total_videos) ==
    CompletionPercentage(total_completed, total_videos)

RECURSIVE WeekLoop(_, _, _, _)
\* for d in dates: day_status = await self.get_day_status(d); ...
WeekLoop(i, dates, chans, acc) ==
    IF i > Len(dates) THEN acc
    ELSE LET day_status == GetDayStatus(acc.uploads, acc.schedules, chans, dates[i])
         IN  WeekLoop(i + 1, dates, chans,
                      [uploads |-> day_status.uploads,
                       schedules |-> day_status.schedules,
                       days |-> Append(acc.days, day_status),
                       total_videos |-> acc.total_videos + day_status.total_videos,
                       total_completed |-> acc.total_completed + day_status.videos_completed])

\* get_week_overview
GetWeekOverview(ups, sch, chans) ==
    LET dates == DateRange(WeekDays)
        acc == WeekLoop(1, dates, chans,
                        [uploads |-> ups, schedules |-> sch, days |-> << >>,
                         total_videos |-> 0, total_completed |-> 0])
    IN  [uploads |-> acc.uploads, schedules |-> acc.schedules,
         start_date |-> dates[1],
         end_date |-> dates[Len(dates)],
         days |-> acc.days,
         total_videos |-> acc.total_videos,
         total_completed |-> acc.total_completed,
         completion_percentage |->
            OverallPercentage(acc.days, acc.total_completed, acc.total_videos)]

\* get_incomplete_items_for_date: the rows with an issue
GetIncompleteItems(ups, d) ==
    {r \in RowsOn(ups, d) :
        \/ r.script_status = "pending"
        \/ r.thumbnail_status = "pending"
        \/ r.video_status # "completed"}

----------------------------------------------------------------------------
\* Reminder policy (schedule_manager.py, ReminderManager)

TomorrowThrottleMinutes == 30
TodayThrottleHours == 3
MinutesPerHour == 60

\* the except clause answers (False, [])
ShouldSendTomorrowReminder(ups, sch, t) ==
    LET incomplete == GetIncompleteItems(ups, Tomorrow)
        sent == {s \in ScheduleRows(sch, Tomorrow) : s.last_reminder_sent_at # Null}
    IN  IF incomplete = {} THEN [send |-> FALSE, incomplete |-> {}]
        ELSE IF \E s \in sent : SinceRaises(s)
        THEN [send |-> FALSE, incomplete |-> {}]
        ELSE IF \E s \in sent : t - s.last_reminder_sent_at < TomorrowThrottleMinutes
        THEN [send |-> FALSE, incomplete |-> incomplete]
        ELSE [send |-> TRUE, incomplete |-> incomplete]

\* has_status: the second component is the status dict, not {}
ShouldSendTodayReminder(ups, sch, chans, t) ==
    LET status == GetDayStatus(ups, sch, chans, Today)
        sent == {s \in ScheduleRows(status.schedules, Today) :
                    s.last_reminder_sent_at # Null /\ s.reminder_type = "ready"}
    IN  IF ~status.all_complete
        THEN [send |-> FALSE, has_status |-> FALSE, status |-> status]
        ELSE IF \E s \in sent : SinceRaises(s)
        THEN [send |-> FALSE, has_status |-> FALSE, status |-> status]
        ELSE IF \E s \in sent :
                   t - s.last_reminder_sent_at < TodayThrottleHours * MinutesPerHour
        THEN [send |-> FALSE, has_status |-> TRUE, status |-> status]
        ELSE [send |-> TRUE, has_status |-> TRUE, status |-> status]

\* log_reminder: insert the log row, then update the date's schedule row (if any)
LogReminder(logs, sch, reminder_type, d, t, zoned) ==
    [logs |-> Append(logs, [reminder_type |-> reminder_type, upload_date |-> d]),
     schedules |->
        {IF s.upload_date = d
         THEN [s EXCEPT !.last_reminder_sent_at = t, !.zoned = zoned,
                        !.reminder_type = reminder_type]
         ELSE s : s \in sch}]

----------------------------------------------------------------------------
\* Scheduled jobs and commands (orchestrator_bot.py)

Chats == 1 .. NumChats

\* loggedAt: when the job last broadcast to all chats and logged it; since: in a run
\* that broadcasts, the minutes since then
NoRun ==
    [job |-> None, fired |-> FALSE, delivered |-> {}, failed |-> 0, logged |-> FALSE,
     loggedAt |-> Null, since |-> Null]

Since(run, t) == IF run.loggedAt = Null THEN Null ELSE t - run.loggedAt

\* for chat_id in self.active_chat_ids: send_message; the send to chat failAt raises
\* (failAt = 0: none does)
Delivered(failAt) == IF failAt = 0 THEN Chats ELSE {c \in Chats : c < failAt}

JobTodayReady(failAt, zoned) ==
    LET r == ShouldSendTodayReminder(uploads, schedules, channels, now)
        logged == LogReminder(reminder_logs, r.status.schedules, "today_ready", Today, now,
                              zoned)
        prev == IF sends.job = "today_ready" THEN sends ELSE NoRun
    IN  /\ Len(reminder_logs) < MaxLogs
        /\ uploads' = r.status.uploads
        /\ IF ~r.send \/ ~r.has_status
           THEN /\ schedules' = r.status.schedules
                /\ sends' = [job |-> "today_ready", fired |-> FALSE, delivered |-> {},
                             failed |-> 0, logged |-> FALSE,
                             loggedAt |-> prev.loggedAt, since |-> Null]
                /\ UNCHANGED reminder_logs
           ELSE IF failAt # 0
           THEN /\ schedules' = r.status.schedules
                /\ sends' = [job |-> "today_ready", fired |-> TRUE,
                             delivered |-> Delivered(failAt), failed |-> failAt,
                             logged |-> FALSE, loggedAt |-> prev.loggedAt,
                             since |-> Since(prev, now)]
                /\ UNCHANGED reminder_logs
           ELSE /\ schedules' = logged.schedules
                /\ reminder_logs' = logged.logs
                /\ sends' = [job |-> "today_ready", fired |-> TRUE,
                             delivered |-> Delivered(failAt), failed |-> failAt,
                             logged |-> TRUE, loggedAt |-> now,
                             since |-> Since(prev, now)]
        /\ UNCHANGED <<channels, now>>
        /\ UNCHANGED wizardVars
        /\ UNCHANGED counterVars
        /\ UNCHANGED commitVars
        /\ UNCHANGED restartVars

JobTomorrowIncomplete(failAt, zoned) ==
    LET r == ShouldSendTomorrowReminder(uploads, schedules, now)
        logged == LogReminder(reminder_logs, schedules, "tomorrow_incomplete", Tomorrow,
                              now, zoned)
        prev == IF sends.job = "tomorrow_incomplete" THEN sends ELSE NoRun
    IN  /\ Len(reminder_logs) < MaxLogs
        /\ IF ~r.send \/ r.incomplete = {}
           THEN /\ sends' = [job |-> "tomorrow_incomplete", fired |-> FALSE, delivered |-> {},
                             failed |-> 0, logged |-> FALSE,
                             loggedAt |-> prev.loggedAt, since |-> Null]
                /\ UNCHANGED <<schedules, reminder_logs>>
           ELSE IF failAt # 0
           THEN /\ sends' = [job |-> "tomorrow_incomplete", fired |-> TRUE,
                             delivered |-> Delivered(failAt), failed |-> failAt,
                             logged |-> FALSE, loggedAt |-> prev.loggedAt,
                             since |-> Since(prev, now)]
                /\ UNCHANGED <<schedules, reminder_logs>>
           ELSE /\ schedules' = logged.schedules
                /\ reminder_logs' = logged.logs
                /\ sends' = [job |-> "tomorrow_incomplete", fired |-> TRUE,
                             delivered |-> Delivered(failAt), failed |-> failAt,
                             logged |-> TRUE, loggedAt |-> now,
                             since |-> Since(prev, now)]
        /\ UNCHANGED <<channels, uploads, now>>
        /\ UNCHANGED wizardVars
        /\ UNCHANGED counterVars
        /\ UNCHANGED commitVars
        /\ UNCHANGED restartVars

\* cmd_today_status / cmd_tomorrow_status / cmd_day_status
CmdDayStatus(d) ==
    LET status == GetDayStatus(uploads, schedules, channels, d)
    IN  /\ ScheduleRows(schedules, d) = {}
        /\ uploads' = status.uploads
        /\ schedules' = status.schedules
        /\ UNCHANGED <<channels, reminder_logs, now, sends>>
        /\ UNCHANGED wizardVars
        /\ UNCHANGED counterVars
        /\ UNCHANGED commitVars
        /\ UNCHANGED restartVars

\* cmd_week_status: the overview initializes the dates of the week that are not yet
CmdWeekStatus ==
    LET overview == GetWeekOverview(uploads, schedules, channels)
    IN  /\ \E i \in 1 .. WeekDays : ScheduleRows(schedules, Calendar[i]) = {}
        /\ uploads' = overview.uploads
        /\ schedules' = overview.schedules
        /\ UNCHANGED <<channels, reminder_logs, now, sends>>
        /\ UNCHANGED wizardVars
        /\ UNCHANGED counterVars
        /\ UNCHANGED commitVars
        /\ UNCHANGED restartVars

\* cmd_mark_complete
CmdMarkComplete(name, d, n) ==
    /\ uploads' = MarkComplete(uploads, channels, name, d, n).uploads
    /\ UNCHANGED <<channels, schedules, reminder_logs, now, sends>>
    /\ UNCHANGED wizardVars
    /\ UNCHANGED counterVars
    /\ UNCHANGED commitVars
    /\ UNCHANGED restartVars

\* a wizard session that ends in a commit, taken as one step
WizardCommit(content_type, name, d, n) ==
    /\ uploads' = ProcessSelection(
                      [NewState(content_type, 0) EXCEPT !.selected_date = d,
                           !.selected_channel = name, !.selected_video = n],
                      uploads, channels, "none").uploads
    /\ UNCHANGED <<channels, schedules, reminder_logs, now, sends>>
    /\ UNCHANGED wizardVars
    /\ UNCHANGED counterVars
    /\ UNCHANGED commitVars
    /\ UNCHANGED restartVars

\* UploadManager.update_video_status, called for an existing row
VideoStatusUpdated(name, d, n, status) ==
    /\ ~UpdateRaises(uploads, name, d, n)
    /\ uploads' = UpdateVideoStatus(uploads, name, d, n, status)
    /\ UNCHANGED <<channels, schedules, reminder_logs, now, sends>>
    /\ UNCHANGED wizardVars
    /\ UNCHANGED counterVars
    /\ UNCHANGED commitVars
    /\ UNCHANGED restartVars

ChannelDeleted(name) ==
    /\ channels' = DeleteChannel(channels, name)
    /\ UNCHANGED <<uploads, schedules, reminder_logs, now, sends>>
    /\ UNCHANGED wizardVars
    /\ UNCHANGED counterVars
    /\ UNCHANGED commitVars
    /\ UNCHANGED restartVars

Tick ==
    /\ now < MaxNow
    /\ now' = now + TickMinutes
    /\ UNCHANGED <<channels, uploads, schedules, reminder_logs, sends>>
    /\ UNCHANGED wizardVars
    /\ UNCHANGED counterVars
    /\ UNCHANGED commitVars
    /\ UNCHANGED restartVars

----------------------------------------------------------------------------
\* The wizard's specification

Init ==
    /\ selections = << >>
    /\ channels = {[channel_name |-> c, is_active |-> TRUE] : c \in ChannelNames}
    /\ uploads = {}
    /\ schedules = {}
    /\ reminder_logs = << >>
    /\ now = 0
    /\ reply = NoReply
    /\ trace = "other"
    /\ sessCommits = 0
    /\ nCommits = 0
    /\ nSessions = 0
    /\ lastCommit = NoCommit
    /\ chosen = NoChoice
    /\ bulk_selections = << >>
    /\ bulkRun = NoBulkRun
    /\ nBulk = 0
    /\ sends = NoRun
    /\ global_counter = 0
    /\ channel_counters = << >>
    /\ callers = [w \in Workers |-> Idle]
    /\ returned = {}
    /\ nCalls = 0
    /\ pending = NoPending
    /\ replaced = {}

OnMessage ==
    \E u \in Users, ct \in ContentTypes, replyOk \in BOOLEAN :
        StartSelection(u, ct, replyOk) /\ UNCHANGED restartVars

\* a token of the date or channel keyboard, or a back or cancel button
OnCallback ==
    \E u \in Users, data \in CallbackData \ {<<"video", s>> : s \in {"1", "2", "3", "4"}},
       answerOk \in BOOLEAN, editOk \in BOOLEAN :
        HandleCallback(u, data, answerOk, editOk, "none")

\* a slot button: the commit's remote calls may fail
OnVideoCallback ==
    \E u \in Users, s \in {"1", "2", "3", "4"}, answerOk \in BOOLEAN, editOk \in BOOLEAN,
       fault \in Faults :
        HandleCallback(u, <<"video", s>>, answerOk, editOk, fault)

Next == OnMessage \/ OnCallback \/ OnVideoCallback

Spec == Init /\ [][Next]_vars

\* The "today ready" reminder: today's rows, the job every 3 hours
NextToday ==
    \/ Tick
    \/ CmdDayStatus(Today)
    \/ \E name \in ChannelNames, n \in 1 .. SlotsPerDay : CmdMarkComplete(name, Today, n)
    \/ \E ct \in ContentTypes, name \in {c.channel_name : c \in {x \in channels : x.is_active}},
          n \in 1 .. SlotsPerDay :
            WizardCommit(ct, name, Today, n)
    \/ \E name \in ChannelNames : ChannelDeleted(name)
    \/ \E failAt \in 0 .. NumChats, zoned \in BOOLEAN : JobTodayReady(failAt, zoned)

SpecToday == Init /\ [][NextToday]_vars

\* The "tomorrow incomplete" reminder: tomorrow's rows, the job every 30 minutes
NextTomorrow ==
    \/ Tick
    \/ CmdDayStatus(Tomorrow)
    \/ \E name \in ChannelNames, n \in 1 .. SlotsPerDay : CmdMarkComplete(name, Tomorrow, n)
    \/ \E ct \in ContentTypes, name \in {c.channel_name : c \in {x \in channels : x.is_active}},
          n \in 1 .. SlotsPerDay :
            WizardCommit(ct, name, Tomorrow, n)
    \/ \E name \in ChannelNames, n \in 1 .. SlotsPerDay, status \in VideoStatuses :
            VideoStatusUpdated(name, Tomorrow, n, status)
    \/ \E failAt \in 0 .. NumChats, zoned \in BOOLEAN : JobTomorrowIncomplete(failAt, zoned)

\* one of the two channels was soft-deleted before
InitTomorrow ==
    /\ selections = << >>
    /\ channels = DeleteChannel({[channel_name |-> c, is_active |-> TRUE] : c \in ChannelNames}, "GYH")
    /\ uploads = {}
    /\ schedules = {}
    /\ reminder_logs = << >>
    /\ now = 0
    /\ reply = NoReply
    /\ trace = "other"
    /\ sessCommits = 0
    /\ nCommits = 0
    /\ nSessions = 0
    /\ lastCommit = NoCommit
    /\ chosen = NoChoice
    /\ bulk_selections = << >>
    /\ bulkRun = NoBulkRun
    /\ nBulk = 0
    /\ sends = NoRun
    /\ global_counter = 0
    /\ channel_counters = << >>
    /\ callers = [w \in Workers |-> Idle]
    /\ returned = {}
    /\ nCalls = 0
    /\ pending = NoPending
    /\ replaced = {}

SpecTomorrow == InitTomorrow /\ [][NextTomorrow]_vars

\* Bulk assignment: submissions and their callbacks
NextBulk ==
    \/ \E u \in Users, ct \in ContentTypes, k \in 1 .. MaxItems, replyOk \in BOOLEAN :
            HandleBulkSelection(u, ct, k, replyOk)
    \/ \E u \in Users, data \in {x \in BulkCallbackData : x[1] # "channel"},
          answerOk \in BOOLEAN, editOk \in BOOLEAN :
            HandleBulkCallback(u, data, answerOk, editOk, [i \in 1 .. MaxItems |-> "none"])
    \/ \E u \in Users, data \in {x \in BulkCallbackData : x[1] = "channel"},
          answerOk \in BOOLEAN, editOk \in BOOLEAN, faults \in BulkFaults :
            HandleBulkCallback(u, data, answerOk, editOk, faults)

SpecBulk == Init /\ [][NextBulk]_vars

\* variant: a state in progress is kept, the new payload is dropped
Restart_KeepOld(u, content_type, replyOk) ==
    /\ nSessions < MaxSessions
    /\ nCommits < MaxCommits
    /\ nSessions' = nSessions + 1
    /\ selections' = IF u \in DOMAIN selections THEN selections
                     ELSE Put(selections, u, NewState(content_type, nSessions + 1))
    /\ replaced' = IF u \in DOMAIN selections
                   THEN replaced \cup {selections[u].content_data}
                   ELSE replaced
    /\ reply' = "select_date_for_content"
    /\ trace' = "start"
    /\ sessCommits' = 0
    /\ chosen' = NoChoice
    /\ lastCommit' = NoCommit
    /\ UNCHANGED <<channels, uploads, nCommits>>
    /\ UNCHANGED reminderVars
    /\ UNCHANGED bulkVars
    /\ UNCHANGED counterVars
    /\ UNCHANGED commitVars

\* start_selection with a note of the payload it overwrites
Restart(u, content_type, replyOk) ==
    /\ StartSelection(u, content_type, replyOk)
    /\ replaced' = IF u \in DOMAIN selections
                   THEN replaced \cup {selections[u].content_data}
                   ELSE replaced

\* The wizard with the overwritten payloads recorded
NextRestart ==
    \/ \E u \in Users, ct \in ContentTypes, replyOk \in BOOLEAN : Restart(u, ct, replyOk)
    \/ OnCallback
    \/ \E u \in Users, s \in {"1", "2"}, answerOk \in BOOLEAN, editOk \in BOOLEAN :
            HandleCallback(u, <<"video", s>>, answerOk, editOk, "none")

SpecRestart == Init /\ [][NextRestart]_vars

\* The wizard while channels are deactivated
NextDeactivate ==
    \/ OnMessage
    \/ OnCallback
    \/ \E u \in Users, s \in {"1", "2"}, answerOk \in BOOLEAN, editOk \in BOOLEAN :
            HandleCallback(u, <<"video", s>>, answerOk, editOk, "none")
    \/ \E name \in ChannelNames : ChannelDeleted(name)

SpecDeactivate == Init /\ [][NextDeactivate]_vars

\* Inbound messages of every kind, and the buttons that do not commit
OnInbound ==
    \E u \in Users, message \in Messages, replyOk \in BOOLEAN :
        HandleMessage(u, message, replyOk)

NextMessage == OnInbound \/ OnCallback

SpecMessage == Init /\ [][NextMessage]_vars

\* A wizard commit taken call by call, with a manual completion of its slot in
\* between; before it, today's rows are created, filled and completed
NextRace ==
    \/ pending.pc = "none" /\ CmdDayStatus(Today)
    \/ \E name \in ChannelNames, n \in 1 .. SlotsPerDay :
            pending.pc = "none" /\ CmdMarkComplete(name, Today, n)
    \/ \E ct \in ContentTypes, name \in ChannelNames, n \in 1 .. SlotsPerDay :
            pending.pc = "none" /\ WizardCommit(ct, name, Today, n)
    \/ \E ct \in ContentTypes, name \in ChannelNames \cup {"gone"}, n \in 1 .. SlotsPerDay :
            CommitGetChannel(ct, name, Today, n)
    \/ \E createOk \in BOOLEAN : CommitCreate(createOk)
    \/ \E updateOk \in BOOLEAN : CommitUpdate(updateOk)
    \/ MarkDuringCommit

SpecRace == Init /\ [][NextRace]_vars

\* The counters: workers call the two increment functions concurrently
NextCounter ==
    \/ \E w \in Workers, rpc \in {"ok", "empty", "raise"}, readOk \in BOOLEAN,
          stamp \in Stamps :
            IncrementCounter(w, rpc, readOk, stamp)
    \/ \E w \in Workers, ch \in ChannelNames, readOk \in BOOLEAN :
            ChannelCounterRead(w, ch, readOk)
    \/ \E w \in Workers, writeOk \in BOOLEAN, stamp \in Stamps :
            CounterWrite(w, writeOk, stamp)

SpecCounter == Init /\ [][NextCounter]_vars

\* The week overview: days are initialized at different times, slots of today and
\* tomorrow are completed, channels are deleted
NextWeek ==
    \/ CmdWeekStatus
    \/ CmdDayStatus(Today)
    \/ \E name \in ChannelNames, d \in {Today, Tomorrow}, n \in 1 .. SlotsPerDay :
            CmdMarkComplete(name, d, n)
    \/ \E name \in ChannelNames : ChannelDeleted(name)

SpecWeek == Init /\ [][NextWeek]_vars

\* The day status of today: contents arrive, slots are completed, channels are
\* deleted, the status is asked for
DaySlots == 1 .. (SlotsPerDay + 1)

NextDay ==
    \/ CmdDayStatus(Today)
    \/ \E name \in ChannelNames, n \in DaySlots : CmdMarkComplete(name, Today, n)
    \/ \E ct \in ContentTypes, name \in {c.channel_name : c \in {x \in channels : x.is_active}},
          n \in DaySlots :
            WizardCommit(ct, name, Today, n)
    \/ \E name \in ChannelNames : ChannelDeleted(name)

SpecDay == Init /\ [][NextDay]_vars

----------------------------------------------------------------------------
\* Properties of the wizard

HasState(u) == u \in DOMAIN selections

\* C1: a session whose callbacks are forward/back transitions and then cancel has
\* called _process_selection no time; one that ends with a slot pick, exactly once.
C1_CommitCount ==
    /\ trace = "ended_cancel" => sessCommits = 0
    /\ trace = "ended_video" => sessCommits = 1

C1_Witness == trace = "ended_video" /\ chosen.replaced # None /\ sessCommits = 1

\* C2: the commit of a slot pick is called with the date, the channel and the slot
\* chosen last; a channel that a later pick replaced is not its target.
C2_CommitTarget ==
    lastCommit # NoCommit =>
        /\ lastCommit.selected_date = chosen.date
        /\ lastCommit.selected_channel = chosen.channel
        /\ lastCommit.selected_video = chosen.video
        /\ chosen.replaced # None => lastCommit.selected_channel # chosen.replaced

C2_Witness ==
    /\ lastCommit.ok
    /\ lastCommit.selected_date = "d1"
    /\ lastCommit.selected_channel = "GYH"
    /\ lastCommit.selected_video = 3
    /\ chosen.replaced = "BI"

\* C3: a thumbnail commit to a slot that already has a row leaves one row for the key
\* and leaves the row's script, video and audio statuses as they were.
C3_StatusesKept ==
    [][(nCommits' = nCommits + 1 /\ lastCommit'.ok /\ lastCommit'.content_type = "thumbnail")
        => \A r \in RowsAt(uploads, lastCommit'.selected_channel,
                           lastCommit'.selected_date, lastCommit'.selected_video) :
              /\ Cardinality(RowsAt(uploads', r.channel_id, r.upload_date, r.video_number)) = 1
              /\ \A q \in RowsAt(uploads', r.channel_id, r.upload_date, r.video_number) :
                    /\ q.script_status = r.script_status
                    /\ q.video_status = r.video_status
                    /\ q.audio_status = r.audio_status]_vars

\* C4: once a slot pick is processed (the result text went to edit_message_text) the
\* user's state is gone, a failed commit reports the error, and it was called once.
C4_StateRemoved ==
    reply \in {"saved", "error"} =>
        /\ \A u \in Users : ~HasState(u)
        /\ lastCommit.ok <=> reply = "saved"

\* C5: once a cancel is processed the user's state is gone and nothing was committed.
C5_CancelRemoves ==
    reply = "cancelled" => (\A u \in Users : ~HasState(u)) /\ lastCommit = NoCommit

\* C6: after back_to_date the step is date and no channel is chosen; after
\* back_to_channel the step is channel and no slot is chosen, whatever the step was.
C6_BackClears ==
    \A u \in Users :
        /\ reply = "select_date" =>
              HasState(u) /\ selections[u].step = "date"
                 /\ selections[u].selected_channel = None
        /\ reply = "select_channel_again" =>
              HasState(u) /\ selections[u].step = "channel"
                 /\ selections[u].selected_video = NoVideo

C6_Witness ==
    /\ reply = "select_date"
    /\ HasState("u1") /\ selections["u1"].selected_date # None
    /\ chosen.replaced # None

\* C7: a callback that finds no state is answered "selection expired", commits
\* nothing and leaves the user without a state.
C7_ExpiredTerminal ==
    reply = "expired" => (\A u \in Users : ~HasState(u)) /\ lastCommit = NoCommit

C7_Witness == reply = "expired" /\ trace = "ended_video" /\ sessCommits = 1

\* C8: should_send_today_reminder answers should-send only if today is fully
\* complete and the reminder marker recorded for today is absent or at least 3 hours
\* (180 minutes) old; in particular, once job_today_ready has sent and logged a
\* reminder, a check less than 3 hours later answers no.
C8_TodayThrottled ==
    ShouldSendTodayReminder(uploads, schedules, channels, now).send =>
        /\ \A r \in RowsOn(uploads, Today) : r.video_status = "completed"
        /\ \A s \in ScheduleRows(schedules, Today) :
              s.last_reminder_sent_at = Null \/ now - s.last_reminder_sent_at >= 180

\* C9: should_send_tomorrow_reminder answers should-send exactly when tomorrow has a
\* slot with an outstanding field (script or thumbnail pending, video or audio not
\* completed) and tomorrow has no reminder marker or the marker is at least 30
\* minutes old.
C9_TomorrowPolicy ==
    ShouldSendTomorrowReminder(uploads, schedules, now).send <=>
        /\ \E r \in uploads :
              /\ r.upload_date = Tomorrow
              /\ \/ r.script_status = "pending"
                 \/ r.thumbnail_status = "pending"
                 \/ r.video_status # "completed"
                 \/ r.audio_status # "completed"
        /\ \A s \in schedules :
              s.upload_date = Tomorrow =>
                 (s.last_reminder_sent_at = Null \/ now - s.last_reminder_sent_at >= 30)

\* C10 as stated: if today is initialized (its schedule row exists) without a
\* reminder marker and every slot of every active channel on today's date has video
\* status completed, get_day_status reports READY at 100% and
\* should_send_today_reminder answers should-send.
C10_ActiveChannelsReady ==
    LET active == {r \in RowsOn(uploads, Today) :
                      \E c \in channels : c.is_active /\ c.channel_name = r.channel_id}
        status == GetDayStatus(uploads, schedules, channels, Today)
    IN  (/\ ScheduleRows(schedules, Today) # {}
         /\ \A s \in ScheduleRows(schedules, Today) : s.last_reminder_sent_at = Null
         /\ active # {}
         /\ \A r \in active : r.video_status = "completed")
        => /\ status.status_text = "READY"
           /\ status.completion_percentage = 1000
           /\ ShouldSendTodayReminder(uploads, schedules, channels, now).send

\* C11: with p = 100 * completed / total the percentage of today's status (0 when
\* there is no video), the tier is one of five labels, READY iff p = 100, ALMOST
\* READY iff 80 <= p < 100, IN PROGRESS iff 50 <= p < 80, STARTED iff 0 < p < 50
\* and NOT STARTED iff p = 0.
C11_TierOfPercentage ==
    LET st == GetDayStatus(uploads, schedules, channels, Today)
        c == st.videos_completed
        t == st.total_videos
        Ge(k) == t > 0 /\ 100 * c >= k * t
        Lt(k) == t = 0 \/ 100 * c < k * t
    IN  /\ st.status_text \in {"READY", "ALMOST READY", "IN PROGRESS", "STARTED", "NOT STARTED"}
        /\ st.status_text = "READY" <=> (Ge(100) /\ ~Lt(100))
        /\ st.status_text = "ALMOST READY" <=> (Ge(80) /\ Lt(100))
        /\ st.status_text = "IN PROGRESS" <=> (Ge(50) /\ Lt(80))
        /\ st.status_text = "STARTED" <=> (t > 0 /\ c > 0 /\ Lt(50))
        /\ st.status_text = "NOT STARTED" <=> (t = 0 \/ c = 0)

\* 4 of 5 videos are completed: exactly 80%, ALMOST READY
C11_Witness ==
    LET st == GetDayStatus(uploads, schedules, channels, Today)
    IN  /\ st.total_videos = 5
        /\ st.videos_completed = 4
        /\ st.status_text = "ALMOST READY"

\* C12 as stated: for every slot of today and every one of its four status fields
\* that is pending, the missing list of the slot's channel holds the entry of that
\* slot and field.
C12_EveryPendingFieldListed ==
    LET st == GetDayStatus(uploads, schedules, channels, Today)
    IN  \A r \in RowsOn(st.uploads, Today) :
           /\ r.script_status = "pending" =>
                 Label(r.video_number, "script") \in st.channels[r.channel_id].missing
           /\ r.thumbnail_status = "pending" =>
                 Label(r.video_number, "thumbnail") \in st.channels[r.channel_id].missing
           /\ r.video_status = "pending" =>
                 Label(r.video_number, "video") \in st.channels[r.channel_id].missing
           /\ r.audio_status = "pending" =>
                 Label(r.video_number, "audio") \in st.channels[r.channel_id].missing

\* C12 amended: for every slot of today, a pending script and a pending thumbnail
\* each have their entry in the missing list of the slot's channel (video and audio
\* have no entries).
C12_PendingContentListed ==
    LET st == GetDayStatus(uploads, schedules, channels, Today)
    IN  \A r \in RowsOn(st.uploads, Today) :
           /\ r.script_status = "pending" =>
                 Label(r.video_number, "script") \in st.channels[r.channel_id].missing
           /\ r.thumbnail_status = "pending" =>
                 Label(r.video_number, "thumbnail") \in st.channels[r.channel_id].missing

\* a slot with nothing received is listed twice, next to a completed slot of the
\* same channel that is not listed
C12_Witness ==
    LET st == GetDayStatus(uploads, schedules, channels, Today)
    IN  \E r \in RowsOn(uploads, Today), q \in RowsOn(uploads, Today) :
           /\ r.channel_id = q.channel_id
           /\ r.script_status = "pending" /\ r.thumbnail_status = "pending"
           /\ q.video_status = "completed"
           /\ {Label(r.video_number, "script"), Label(r.video_number, "thumbnail")}
                 \subseteq st.channels[r.channel_id].missing
           /\ Label(q.video_number, "script") \notin st.channels[r.channel_id].missing

\* C13: for every slot n of a channel today, "V<n> script" is among the channel's
\* missing items iff the slot's script is pending, and "V<n> thumbnail" iff its
\* thumbnail is pending.
C13_MissingIffPending ==
    LET st == GetDayStatus(uploads, schedules, channels, Today)
    IN  \A r \in RowsOn(st.uploads, Today) :
           /\ Label(r.video_number, "script") \in st.channels[r.channel_id].missing
                 <=> r.script_status = "pending"
           /\ Label(r.video_number, "thumbnail") \in st.channels[r.channel_id].missing
                 <=> r.thumbnail_status = "pending"

\* slot 2 of a channel has script pending, thumbnail received, video pending: "V2
\* script" is listed, "V2 thumbnail" is not
C13_Witness ==
    LET st == GetDayStatus(uploads, schedules, channels, Today)
    IN  \E r \in RowsOn(uploads, Today) :
           /\ r.video_number = 2
           /\ r.script_status = "pending"
           /\ r.thumbnail_status = "received"
           /\ r.video_status = "pending"
           /\ Label(2, "script") \in st.channels[r.channel_id].missing
           /\ Label(2, "thumbnail") \notin st.channels[r.channel_id].missing

\* C14: today's status has total = the number of today's rows, completed = the
\* number of them with video completed, the channels' totals and completed counts
\* sum to these, and the percentage is 100 * completed / total to one decimal (0
\* without rows).
C14_Counts ==
    LET st == GetDayStatus(uploads, schedules, channels, Today)
        rows == RowsOn(st.uploads, Today)
        chs == DOMAIN st.channels
        diff == 10 * st.completion_percentage * st.total_videos
                   - 10000 * st.videos_completed
    IN  /\ st.total_videos = Cardinality(rows)
        /\ st.videos_completed = Cardinality({r \in rows : r.video_status = "completed"})
        /\ SumOver([ch \in chs |-> st.channels[ch].total], chs) = st.total_videos
        /\ SumOver([ch \in chs |-> st.channels[ch].completed], chs) = st.videos_completed
        /\ st.total_videos = 0 => st.completion_percentage = 0
        /\ 2 * diff <= 10 * st.total_videos /\ -2 * diff <= 10 * st.total_videos

\* two channels with different totals, a completed slot, and an unfinished slot
\* that has its script: 1 of 3 gives 33.3%
C14_Witness ==
    LET st == GetDayStatus(uploads, schedules, channels, Today)
    IN  /\ st.total_videos = 3
        /\ st.videos_completed = 1
        /\ st.completion_percentage = 333
        /\ \E a \in DOMAIN st.channels, b \in DOMAIN st.channels :
              st.channels[a].total # st.channels[b].total
        /\ \E r \in RowsOn(uploads, Today) :
              r.script_status = "received" /\ r.video_status = "pending"

C17_BulkAttempts ==
    (bulkRun.ran /\ bulkRun.found /\ bulkRun.date # None) =>
        /\ Len(bulkRun.attempts) = (IF bulkRun.submitted < 4 THEN bulkRun.submitted ELSE 4)
        /\ \A i \in DOMAIN bulkRun.attempts :
              bulkRun.attempts[i].slot <= 4 /\ bulkRun.attempts[i].item <= 4
        /\ \A r \in uploads : r.video_number <= 4
        /\ bulkRun.success_count <= Len(bulkRun.attempts)

\* five items were submitted: four attempts, all successful, the fifth item dropped
C17_Witness ==
    /\ bulkRun.ran /\ bulkRun.found /\ bulkRun.date # None
    /\ bulkRun.submitted = 5
    /\ Len(bulkRun.attempts) = 4
    /\ bulkRun.success_count = 4

\* C18: in a bulk run on an existing channel a failed commit does not end the loop:
\* each of the first four items is attempted, the item at position i at slot i, and
\* the success count is the number of attempts that did not fail.
C18_BulkSkipsFailures ==
    (bulkRun.ran /\ bulkRun.found) =>
        /\ \A i \in 1 .. (IF bulkRun.submitted < 4 THEN bulkRun.submitted ELSE 4) :
              /\ i \in DOMAIN bulkRun.attempts
              /\ bulkRun.attempts[i].item = i
              /\ bulkRun.attempts[i].slot = i
        /\ bulkRun.success_count =
              Cardinality({i \in DOMAIN bulkRun.attempts : bulkRun.attempts[i].ok})

\* the commit of the second item failed; the third and the fourth were still made
C18_Witness ==
    /\ bulkRun.ran /\ bulkRun.found
    /\ Len(bulkRun.attempts) = 4
    /\ ~bulkRun.attempts[2].ok
    /\ bulkRun.attempts[1].ok /\ bulkRun.attempts[3].ok /\ bulkRun.attempts[4].ok
    /\ bulkRun.success_count = 3

\* C19 as stated: the message after a bulk run on an existing channel reports the
\* success count out of the number of attempts.
C19_OutOfAttempted ==
    (bulkRun.shown /\ bulkRun.found) =>
        /\ bulkRun.saved = bulkRun.success_count
        /\ bulkRun.of = Len(bulkRun.attempts)

\* C19 amended: the message after a bulk run reports the success count out of K,
\* the number of submitted items.
C19_OutOfSubmitted ==
    bulkRun.shown =>
        /\ bulkRun.saved = bulkRun.success_count
        /\ bulkRun.of = bulkRun.submitted

\* five items, four attempts, one of them failed: "Saved 3/5"
C19_Witness ==
    /\ bulkRun.shown /\ bulkRun.found
    /\ bulkRun.submitted = 5
    /\ Len(bulkRun.attempts) = 4
    /\ bulkRun.saved = 3
    /\ bulkRun.of = 5

\* C20: in a job run that broadcasts, a failed send to one destination does not end
\* the loop: every later destination is still sent the message in that run.
C20_BroadcastContinues ==
    (sends.fired /\ sends.failed # 0) =>
        \A c \in Chats : c > sends.failed => c \in sends.delivered

\* C21: a log_reminder call appends one entry to the reminder log and leaves the
\* entries before it as they were, and after it the reminder's date has a marker
\* that carries the reminder's type and the send time.
C21_LogAndMark ==
    [][reminder_logs' # reminder_logs =>
          LET n == Len(reminder_logs)
              entry == reminder_logs'[n + 1]
          IN  /\ Len(reminder_logs') = n + 1
              /\ SubSeq(reminder_logs', 1, n) = reminder_logs
              /\ \E s \in ScheduleRows(schedules', entry.upload_date) :
                    /\ s.reminder_type = entry.reminder_type
                    /\ s.last_reminder_sent_at = now]_vars

C23_UniqueIncrements ==
    LET good(target) == {r \in returned : r.ok /\ r.target = target}
        stored(target) ==
            IF target = "global" THEN global_counter
            ELSE IF target \in DOMAIN channel_counters THEN channel_counters[target]
            ELSE 0
    IN  \A target \in {"global"} \cup ChannelNames :
           /\ \A a \in good(target), b \in good(target) :
                 a.call # b.call => a.value # b.value
           /\ (\A w \in Workers : callers[w].pc = "idle") =>
                 stored(target) = Cardinality(good(target))

\* C24: a message is a script iff its text is longer than 50 characters, else a
\* thumbnail iff it has a photo or a document with an image mime type, else
\* nothing; handle_message leaves the selections as they are for a message that is
\* nothing and stores a fresh state of the detected type otherwise.
C24_Detection ==
    \A message \in Messages, u \in Users :
        LET content_type == DetectContentType(message)
            long == message.text_len > 50
            image == message.photo
                        \/ message.document \in {<<"image", "png">>}
            after == AfterMessage(selections, u, message, nSessions + 1)
        IN  /\ content_type = "script" <=> long
            /\ content_type = "thumbnail" <=> (~long /\ image)
            /\ content_type = None <=> (~long /\ ~image)
            /\ content_type = None => after = selections
            /\ content_type # None =>
                  /\ u \in DOMAIN after
                  /\ after[u].content_type = content_type
                  /\ after[u].content_type \in {"script", "thumbnail"}
                  /\ after[u].step = "date"

\* two messages started sessions, the second one a thumbnail
C24_Witness ==
    /\ nSessions = 2
    /\ HasState("u1")
    /\ selections["u1"].content_type = "thumbnail"
    /\ selections["u1"].content_data = 2

\* C25: when a wizard commit has finished and mark_complete ran on its slot while
\* it was in flight, the slot's row is the one that the commit followed by
\* mark_complete, or mark_complete followed by the commit, leaves on the table the
\* commit started from.
C25_Serializable ==
    LET st == pending.state
        name == st.selected_channel
        d == st.selected_date
        n == st.selected_video
        commitFirst ==
            MarkComplete(ProcessSelection(st, pending.before, channels, "none").uploads,
                         channels, name, d, n).uploads
        markFirst ==
            ProcessSelection(st, MarkComplete(pending.before, channels, name, d, n).uploads,
                             channels, "none").uploads
    IN  (pending.pc = "done" /\ pending.marked) =>
            \/ RowsAt(uploads, name, d, n) = RowsAt(commitFirst, name, d, n)
            \/ RowsAt(uploads, name, d, n) = RowsAt(markFirst, name, d, n)

\* C26: _process_selection is called only with a date and a channel chosen: the
\* state of every commit attempt has the selected date and the selected channel set.
C26_CommitNeedsChoices ==
    lastCommit # NoCommit =>
        /\ lastCommit.selected_date # None
        /\ lastCommit.selected_channel # None

\* C27: a run of job_tomorrow_incomplete that broadcasts comes at least 30 minutes
\* after the job's last complete broadcast (sent to every chat and logged).
C27_NoRepeatWithin30 ==
    (sends.job = "tomorrow_incomplete" /\ sends.fired /\ sends.since # Null) =>
        sends.since >= 30

\* C28: when the status of tomorrow is READY with at least one slot, tomorrow has no
\* incomplete item and the tomorrow-incomplete check does not answer should-send.
C28_ReadyHasNoIncomplete ==
    LET st == GetDayStatus(uploads, schedules, channels, Tomorrow)
    IN  (st.status_text = "READY" /\ st.total_videos >= 1) =>
            /\ GetIncompleteItems(st.uploads, Tomorrow) = {}
            /\ ~ShouldSendTomorrowReminder(st.uploads, st.schedules, now).send

\* C29: a user has one state, the one the last start_selection stored: right after
\* a start it is the fresh state of the new payload (step date, nothing chosen),
\* and no commit attempt carries a payload that a start_selection overwrote.
C29_ReplacedNeverCommitted ==
    /\ \A u \in Users :
          /\ HasState(u) => selections[u].content_data \notin replaced
          /\ reply = "select_date_for_content" =>
                /\ HasState(u)
                /\ selections[u] = NewState(selections[u].content_type, nSessions)
    /\ lastCommit # NoCommit => lastCommit.content_data \notin replaced

\* the first session was overwritten while in progress, and the second payload was
\* committed to the slot chosen in the second session
C29_Witness ==
    /\ replaced = {1}
    /\ lastCommit.ok
    /\ lastCommit.content_data = 2
    /\ nCommits = 1

\* C30: a commit whose chosen channel is not active when the slot is picked
\* reports failure and leaves the table of slot rows as it was.
C30_CommitNeedsActiveChannel ==
    [][(nCommits' = nCommits + 1
          /\ \E c \in channels :
                c.channel_name = lastCommit'.selected_channel /\ ~c.is_active)
        => (~lastCommit'.ok /\ uploads' = uploads)]_vars

====
